---- MODULE Spec2Model ----
(***************************************************************************)
(* Model of archivebox/extractors/singlefile.py: the precondition gate     *)
(* should_save_singlefile and the extractor save_singlefile (argument      *)
(* building and de-duplication, supervised run of the single-file binary,  *)
(* classification of the outcome, exception handler, finally block and the *)
(* construction of the ArchiveResult).                                     *)
(*                                                                         *)
(* Python str values are sequences of one-character strings, so that       *)
(* split, rsplit, strip, replace and format are computed character by      *)
(* character.  Python objects are records carrying a `type` field; None is *)
(* the record NoneObj.  An Optional[Path] argument that is None is the     *)
(* path "None".                                                            *)
(***************************************************************************)
EXTENDS Integers, Sequences, FiniteSets, TLC

(***************************************************************************)
(* Bounds of the model.                                                    *)
(***************************************************************************)
MaxExtraArgs == 2      \* longest SINGLEFILE_ARGS explored by Spec
MaxArgList == 3        \* longest SINGLEFILE_ARGS explored by SpecArgs
MaxOutLines == 6       \* most lines the tool writes to stdout
MaxTimeout == 2        \* largest timeout (seconds) passed to save_singlefile

(***************************************************************************)
(* Program constants.                                                      *)
(***************************************************************************)
TAIL_LINES == 5        \* rsplit('\n', 5)[-5:]
BROWSER_ARGS_INDEX == 3  \* cmd[2], counted from 1

NoneObj == [type |-> "NoneType"]

(***************************************************************************)
(* str helpers                                                             *)
(***************************************************************************)
Whitespace == {" ", "\t", "\r", "\n"}

RECURSIVE Join(_, _)
\* sep.join(parts)
Join(parts, sep) ==
    IF parts = <<>> THEN <<>>
    ELSE IF Len(parts) = 1 THEN parts[1]
    ELSE parts[1] \o <<sep>> \o Join(Tail(parts), sep)

RECURSIVE SplitFrom(_, _, _, _)
\* walks s from position i; cur is the piece being collected
SplitFrom(s, sep, i, cur) ==
    IF i > Len(s) THEN <<cur>>
    ELSE IF s[i] = sep THEN <<cur>> \o SplitFrom(s, sep, i + 1, <<>>)
    ELSE SplitFrom(s, sep, i + 1, Append(cur, s[i]))

\* s.split(sep) for a one-character separator
Split(s, sep) == SplitFrom(s, sep, 1, <<>>)

\* s.rsplit(sep, maxsplit): at most maxsplit splits, the rightmost ones
RSplit(s, sep, maxsplit) ==
    LET parts == Split(s, sep)
        n == Len(parts)
    IN  IF n <= maxsplit + 1 THEN parts
        ELSE <<Join(SubSeq(parts, 1, n - maxsplit), sep)>>
                 \o SubSeq(parts, n - maxsplit + 1, n)

\* seq[-k:]
LastK(seq, k) ==
    IF Len(seq) <= k THEN seq ELSE SubSeq(seq, Len(seq) - k + 1, Len(seq))

RECURSIVE LStrip(_)
LStrip(s) ==
    IF s # <<>> /\ Head(s) \in Whitespace THEN LStrip(Tail(s)) ELSE s

RECURSIVE RStrip(_)
RStrip(s) ==
    IF s # <<>> /\ s[Len(s)] \in Whitespace
    THEN RStrip(SubSeq(s, 1, Len(s) - 1)) ELSE s

\* s.strip()
Strip(s) == RStrip(LStrip(s))

RECURSIVE Replace(_, _, _)
\* s.replace(old, new) for a one-character old
Replace(s, old, new) ==
    IF s = <<>> THEN <<>>
    ELSE (IF Head(s) = old THEN new ELSE <<Head(s)>>)
             \o Replace(Tail(s), old, new)

Digit(d) == <<"0", "1", "2", "3", "4", "5", "6", "7", "8", "9">>[d + 1]

RECURSIVE NatStr(_)
NatStr(n) ==
    IF n < 10 THEN <<Digit(n)>> ELSE NatStr(n \div 10) \o <<Digit(n % 10)>>

\* '{}'.format(n) for an int
IntStr(n) == IF n < 0 THEN <<"-">> \o NatStr(-n) ELSE NatStr(n)

RECURSIVE JsonItems(_)
JsonItems(list) ==
    IF list = <<>> THEN <<>>
    ELSE <<"\"">> \o Head(list) \o <<"\"">>
             \o (IF Len(list) > 1 THEN <<",", " ">> ELSE <<>>)
             \o JsonItems(Tail(list))

\* json.dumps of a list of str none of which needs escaping
JsonDumps(list) == <<"[">> \o JsonItems(list) \o <<"]">>

(***************************************************************************)
(* Literals of the source and values of the configuration                  *)
(***************************************************************************)
\* 'singlefile.html'
OUTPUT_NAME ==
    <<"s", "i", "n", "g", "l", "e", "f", "i", "l", "e", ".", "h", "t", "m",
      "l">>

\* '--browser-executable-path='
EXECUTABLE_PATH_PREFIX ==
    <<"-", "-", "b", "r", "o", "w", "s", "e", "r", "-", "e", "x", "e", "c",
      "u", "t", "a", "b", "l", "e", "-", "p", "a", "t", "h", "=">>

\* '--browser-args='
BROWSER_ARGS_PREFIX ==
    <<"-", "-", "b", "r", "o", "w", "s", "e", "r", "-", "a", "r", "g", "s",
      "=">>

\* 'Got single-file response code: '
HINT_PREFIX ==
    <<"G", "o", "t", " ", "s", "i", "n", "g", "l", "e", "-", "f", "i", "l",
      "e", " ", "r", "e", "s", "p", "o", "n", "s", "e", " ", "c", "o",
      "d", "e", ":", " ">>

\* config.CHROME_BINARY
CHROME_BINARY == <<"c", "h", "r", "o", "m", "e">>

\* config.DEPENDENCIES['SINGLEFILE_BINARY']['path']
SINGLEFILE_BINARY ==
    <<"s", "i", "n", "g", "l", "e", "-", "f", "i", "l", "e">>

\* config.SINGLEFILE_VERSION
SINGLEFILE_VERSION == <<"1", ".", "1">>

\* util.chrome_args(CHROME_TIMEOUT=0): the binary, then its flags
chrome_args ==
    << CHROME_BINARY,
       <<"-", "-", "h", "e", "a", "d", "l", "e", "s", "s">>,
       <<"-", "-", "n", "o", "-", "s", "a", "n", "d", "b", "o", "x">> >>

\* Link.url of a page and of a static file
PAGE_URL ==
    <<"h", "t", "t", "p", ":", "/", "/", "x", "/">>

STATIC_URL ==
    <<"h", "t", "t", "p", ":", "/", "/", "x", "/", "a", ".", "p", "d", "f">>

STATICFILE_EXTENSIONS == { <<"p", "d", "f">>, <<"p", "n", "g">> }

\* util.is_static_file(url): the URL's extension is a static one
is_static_file(url) ==
    LET parts == Split(url, ".")
    IN  Len(parts) > 1 /\ parts[Len(parts)] \in STATICFILE_EXTENSIONS

Dirs == {"archive/1", "archive/2"}
LinkDir == "archive/1"
Links == { [url |-> u, link_dir |-> LinkDir] : u \in {PAGE_URL, STATIC_URL} }

(***************************************************************************)
(* State                                                                   *)
(***************************************************************************)
VARIABLES
    SAVE_SINGLEFILE,   \* config flag
    SINGLEFILE_ARGS,   \* config: extra arguments
    files,             \* directories that hold a file singlefile.html
    chmodded,          \* directories whose singlefile.html had its mode set
    now,               \* wall clock, seconds
    link, out_dir, overwrite, timeout,   \* arguments of the call
    pc,                \* position in the function being run
    should,            \* value returned by should_save_singlefile
    options, deduped_options, cmd,       \* locals of save_singlefile
    status, output, result, hints, err, timer,
    executed,          \* the call run() received
    faults,            \* faults the environment raised during the call
    ret,               \* ArchiveResult returned by save_singlefile
    exc                \* exception that left save_singlefile

vars == << SAVE_SINGLEFILE, SINGLEFILE_ARGS, files, chmodded, now, link,
           out_dir, overwrite, timeout, pc, should, options, deduped_options, cmd,
           status, output, result, hints, err, timer, executed, faults,
           ret, exc >>

config == << SAVE_SINGLEFILE, SINGLEFILE_ARGS >>
args == << link, out_dir, overwrite, timeout >>
locals == << options, deduped_options, cmd, status, output, result, hints,
             err, timer >>

\* the locals before the function body has run
LocalsUnset ==
    /\ options = <<>> /\ deduped_options = <<>> /\ cmd = <<>>
    /\ status = "" /\ output = NoneObj /\ result = NoneObj
    /\ hints = <<>> /\ err = NoneObj /\ timer = NoneObj
    /\ executed = NoneObj /\ faults = {} /\ ret = NoneObj /\ exc = NoneObj
    /\ should = NoneObj /\ chmodded = {}

(***************************************************************************)
(* should_save_singlefile                                                  *)
(***************************************************************************)
\* out_dir or Path(link.link_dir)
ResolveDir(l, od) == IF od # "None" THEN od ELSE l.link_dir

\* (dir / 'singlefile.html').exists() and .is_file()
HasArtifact(fs, dir) == dir \in fs

should_save_singlefile_DropOverwrite(l, od, ow, fs, enabled) ==
    IF is_static_file(l.url) THEN FALSE
    ELSE IF HasArtifact(fs, ResolveDir(l, od)) THEN FALSE
    ELSE enabled

should_save_singlefile(l, od, ow, fs, enabled) ==
    IF is_static_file(l.url) THEN FALSE
    ELSE IF ~ow /\ HasArtifact(fs, ResolveDir(l, od)) THEN FALSE
    ELSE enabled

ShouldSave ==
    /\ pc = "idle"
    /\ should' = [type |-> "bool",
                  value |-> should_save_singlefile(link, out_dir, overwrite,
                                                   files, SAVE_SINGLEFILE)]
    /\ pc' = "gate_returned"
    /\ UNCHANGED << config, files, chmodded, now, args, locals, executed, faults,
                    ret, exc >>

InitGate ==
    /\ SAVE_SINGLEFILE \in BOOLEAN
    /\ SINGLEFILE_ARGS = <<>>
    /\ files \in SUBSET Dirs
    /\ now = 0
    /\ link \in Links
    /\ out_dir \in {"None"} \cup Dirs
    /\ overwrite \in BOOLEAN
    /\ timeout = 1
    /\ pc = "idle"
    /\ LocalsUnset

NextGate == ShouldSave

SpecGate == InitGate /\ [][NextGate]_vars

\* the value the gate returned, against the three conditions of the claim
GateValue ==
    pc = "gate_returned" =>
        should.value =
            ( /\ link.url # STATIC_URL
              /\ (overwrite \/ (IF out_dir = "None" THEN link.link_dir
                                ELSE out_dir) \notin files)
              /\ SAVE_SINGLEFILE )

\* the filesystem and the configuration are left as they were
GateFrame ==
    /\ files' = files
    /\ chmodded' = chmodded
    /\ SAVE_SINGLEFILE' = SAVE_SINGLEFILE
    /\ SINGLEFILE_ARGS' = SINGLEFILE_ARGS

\* C3: should_save_singlefile returns true exactly when the URL is not a
\* static resource, and overwrite is true or singlefile.html does not exist
\* in the resolved output directory, and the enable flag is true; the call
\* changes neither the filesystem nor the configuration.
C3_GateDecision == [](GateValue) /\ [][GateFrame]_vars

\* a call on a page whose artifact exists, with overwrite, that returned true
C3_Witness ==
    /\ pc = "gate_returned"
    /\ link.url = PAGE_URL
    /\ overwrite
    /\ ResolveDir(link, out_dir) \in files
    /\ should.value = TRUE

(***************************************************************************)
(* save_singlefile: the argument builder                                   *)
(***************************************************************************)
Range(seq) == { seq[i] : i \in 1..Len(seq) }

\* '--browser-args={}'.format(json.dumps(browser_args[1:]))
browser_args == BROWSER_ARGS_PREFIX \o JsonDumps(Tail(chrome_args))

\* options = [*SINGLEFILE_ARGS, '--browser-executable-path=...', browser_args]
Options(extra) ==
    extra \o << EXECUTABLE_PATH_PREFIX \o CHROME_BINARY, browser_args >>

option_name_WholeArgument(argument) == argument

\* argument.split("=")[0]
option_name(argument) == Split(argument, "=")[1]

RECURSIVE Filter_test_seen(_, _)
\* list(filter(test_seen, opts)) with the closure's seen_option_names
Filter_test_seen(opts, seen_option_names) ==
    IF opts = <<>> THEN <<>>
    ELSE IF option_name(Head(opts)) \in Range(seen_option_names)
         THEN Filter_test_seen(Tail(opts), seen_option_names)
         ELSE <<Head(opts)>>
                  \o Filter_test_seen(Tail(opts),
                         Append(seen_option_names, option_name(Head(opts))))

Dedupe(opts) == Filter_test_seen(opts, <<>>)

\* cmd = [binary, *deduped_options, link.url, output]
Command(deduped, l) ==
    <<SINGLEFILE_BINARY>> \o deduped \o << l.url, OUTPUT_NAME >>

BuildCommand ==
    /\ pc = "start"
    /\ out_dir' = ResolveDir(link, out_dir)
    /\ output' = [type |-> "str", value |-> OUTPUT_NAME]
    /\ options' = Options(SINGLEFILE_ARGS)
    /\ deduped_options' = Dedupe(options')
    /\ cmd' = Command(deduped_options', link)
    /\ pc' = "built"
    /\ UNCHANGED << config, files, chmodded, now, link, overwrite, timeout, should,
                    status, result, hints, err, timer, executed, faults,
                    ret, exc >>

\* arguments a user may put in SINGLEFILE_ARGS
ARG_A1 == <<"-", "-", "a", "=", "1">>
ARG_A9 == <<"-", "-", "a", "=", "9">>
ARG_B2 == <<"-", "-", "b", "=", "2">>
ARG_A == <<"-", "-", "a">>
ARG_B_EQ == <<"-", "-", "b", "=", "x", "=", "y">>
ARG_BROWSER_ARGS == BROWSER_ARGS_PREFIX \o <<"[", "]">>
ARG_EXECUTABLE == EXECUTABLE_PATH_PREFIX \o <<"/", "x">>

ArgPool ==
    { ARG_A1, ARG_A9, ARG_B2, ARG_A, ARG_B_EQ, ARG_BROWSER_ARGS,
      ARG_EXECUTABLE }

ListsUpTo(S, n) == UNION { [1..k -> S] : k \in 0..n }

InitArgs ==
    /\ SAVE_SINGLEFILE = TRUE
    /\ SINGLEFILE_ARGS \in ListsUpTo(ArgPool, MaxArgList)
    /\ files = {}
    /\ now = 0
    /\ link = [url |-> PAGE_URL, link_dir |-> LinkDir]
    /\ out_dir = "None"
    /\ overwrite = FALSE
    /\ timeout = 1
    /\ pc = "start"
    /\ LocalsUnset

NextArgs == BuildCommand

SpecArgs == InitArgs /\ [][NextArgs]_vars

\* the option name as the claim words it: the text before the first '=',
\* the whole argument when it has none
NameBeforeEquals(a) ==
    IF \E i \in 1..Len(a) : a[i] = "="
    THEN SubSeq(a, 1, (CHOOSE i \in 1..Len(a) :
                          a[i] = "=" /\ \A j \in 1..(i - 1) : a[j] # "=") - 1)
    ELSE a

\* positions of the arguments that are the first of their option name
FirstOfName(opts) ==
    { i \in 1..Len(opts) :
        \A j \in 1..(i - 1) :
            NameBeforeEquals(opts[j]) # NameBeforeEquals(opts[i]) }

\* C4: the deduplicated list is exactly the first argument of each option
\* name (the text before the first '=', or the whole argument), in the
\* original order; no two options of the command share an option name.
C4_FirstOccurrenceWins ==
    pc = "built" =>
        LET all == SINGLEFILE_ARGS
                     \o << EXECUTABLE_PATH_PREFIX \o CHROME_BINARY,
                           browser_args >>
            keep == FirstOfName(all)
            section == SubSeq(cmd, 2, Len(cmd) - 2)
        IN  /\ Len(deduped_options) = Cardinality(keep)
            /\ \A i \in keep :
                   deduped_options[Cardinality({ j \in keep : j <= i })]
                       = all[i]
            /\ section = deduped_options
            /\ \A i, j \in 1..Len(section) :
                   i # j => NameBeforeEquals(section[i])
                                # NameBeforeEquals(section[j])

\* [--a=1, --b=2, --a=9] was built into --a=1, --b=2 and the two browser options
C4_Witness ==
    /\ pc = "built"
    /\ SINGLEFILE_ARGS = << ARG_A1, ARG_B2, ARG_A9 >>
    /\ Len(deduped_options) = 4
    /\ deduped_options[1] = ARG_A1
    /\ deduped_options[2] = ARG_B2
    /\ ARG_A9 \notin Range(cmd)

(***************************************************************************)
(* save_singlefile: timer, supervised run, classification, handler         *)
(***************************************************************************)
\* status = 'succeeded'; timer = TimedProgress(timeout, ...); result = None
StartTimer ==
    /\ pc = "built"
    /\ status' = "succeeded"
    /\ timer' = [type |-> "TimedProgress", seconds |-> timeout,
                 start_ts |-> now, end_ts |-> -1, ended |-> 0]
    /\ result' = NoneObj
    /\ pc' = "try"
    /\ UNCHANGED << config, files, chmodded, now, args, should, options,
                    deduped_options, cmd, output, hints, err, executed,
                    faults, ret, exc >>

\* exit codes of the child: killed by SIGKILL, success, failure
ReturnCodes == {-9, 0, 1}

Letter(i) == <<"a", "b", "c", "d", "e", "f", "g", "h", "i", "j">>[i]

\* the i-th line the tool prints; the second one is padded with blanks
LineText(i) == IF i = 2 THEN <<" ", Letter(i), " ">> ELSE <<Letter(i)>>

\* what the tool may write to stdout: up to MaxOutLines lines, with or
\* without a final newline
Stdouts ==
    { Join([i \in 1..n |-> LineText(i)], "\n") \o t :
        n \in 0..MaxOutLines, t \in { <<>>, <<"\n">> } }

Stderrs == { <<>>, <<"E", "r", "r">> }

\* exceptions system.run() raises: the binary cannot be launched
\* (FileNotFoundError, an OSError) or the deadline passed (TimeoutExpired)
RunFaults ==
    { [fault |-> "ToolUnavailable", type |-> "FileNotFoundError"],
      [fault |-> "Timeout", type |-> "TimeoutExpired"] }

\* seconds run() takes when it raises f
RunFaultDelay(f, limit) == IF f.fault = "Timeout" THEN limit ELSE 0

\* system.chmod_file() either sets the mode or raises (PermissionError)
ChmodOutcomes == { "ok", "PermissionError" }

\* result = run(cmd, cwd=str(out_dir), timeout=timeout) raises
RunRaises ==
    /\ pc = "try"
    /\ \E f \in RunFaults :
        /\ \E partial \in (IF f.fault = "Timeout" THEN Stdouts ELSE {<<>>}) :
               err' = [type |-> f.type, msg |-> [text |-> "", status |-> 0],
                       hints |-> <<>>, stdout |-> partial]
        /\ faults' = faults \cup {f.fault}
        /\ now' = now + RunFaultDelay(f, timeout)
    /\ executed' = [type |-> "call", cmd |-> cmd, cwd |-> out_dir,
                    timeout |-> timeout]
    /\ pc' = "except"
    /\ UNCHANGED << config, files, chmodded, args, should, options, deduped_options,
                    cmd, status, output, result, hints, timer, ret, exc >>

\* result = run(cmd, cwd=str(out_dir), timeout=timeout) returns
RunExits ==
    /\ pc = "try"
    /\ \E rc \in ReturnCodes, so \in Stdouts, se \in Stderrs,
          wrote \in BOOLEAN, d \in 0..(timeout - 1) :
        /\ result' = [type |-> "CompletedProcess", returncode |-> rc,
                      stdout |-> so, stderr |-> se]
        /\ files' = IF wrote THEN files \cup {out_dir} ELSE files
        /\ now' = now + d
    /\ executed' = [type |-> "call", cmd |-> cmd, cwd |-> out_dir,
                    timeout |-> timeout]
    /\ pc' = "classify"
    /\ UNCHANGED << config, chmodded, args, should, options,
                    deduped_options, cmd, status, output, hints, err, timer,
                    faults, ret, exc >>

\* (result.stdout + result.stderr).decode(); the bytes explored are ASCII
\* text, for which decode() is the identity on characters
Captured(res) == res.stdout \o res.stderr

Stripped(lines) == [i \in 1..Len(lines) |-> Strip(lines[i])]

NotEmpty(line) == line # <<>>

\* [line.strip() for line in text.rsplit('\n', 5)[-5:] if line.strip()]
output_tail(text) ==
    SelectSeq(Stripped(LastK(RSplit(text, "\n", TAIL_LINES), TAIL_LINES)),
              NotEmpty)

\* 'Got single-file response code: {}.'.format(returncode)
ExitCodeHint(rc) == HINT_PREFIX \o IntStr(rc) \o <<".">>

\* hints = (exit-code hint, *output_tail)
Hints(res) == <<ExitCodeHint(res.returncode)>> \o output_tail(Captured(res))

IsFailure_ArtifactTestInverted(res, fs, dir) ==
    (res.returncode > 0) \/ HasArtifact(fs, dir)

\* (result.returncode > 0) or not (out_dir / output).is_file()
IsFailure(res, fs, dir) == (res.returncode > 0) \/ ~HasArtifact(fs, dir)

\* f'SingleFile was not able to archive the page (status={...})'
ARCHIVE_ERROR_TEXT ==
    "SingleFile was not able to archive the page (status={})"

\* lines 86-99: hints, the failure check, chmod_file
Classify ==
    /\ pc = "classify"
    /\ hints' = Hints(result)
    /\ IF IsFailure(result, files, out_dir)
       THEN /\ err' = [type |-> "ArchiveError",
                       msg |-> [text |-> ARCHIVE_ERROR_TEXT,
                                status |-> result.returncode],
                       hints |-> hints']
            /\ pc' = "except"
            /\ UNCHANGED << faults, chmodded >>
       ELSE \E o \in ChmodOutcomes :
                IF o = "ok"
                THEN /\ chmodded' = chmodded \cup {out_dir}
                     /\ pc' = "finally"
                     /\ UNCHANGED << err, faults >>
                ELSE /\ err' = [type |-> o,
                                msg |-> [text |-> "", status |-> 0],
                                hints |-> <<>>]
                     /\ faults' = faults \cup {"Chmod"}
                     /\ pc' = "except"
                     /\ UNCHANGED chmodded
    /\ UNCHANGED << config, files, now, args, should, options,
                    deduped_options, cmd, status, output, result, timer,
                    executed, ret, exc >>

\* browser_args.replace('"', "\\\"")
EscapedBrowserArgs == Replace(browser_args, "\"", <<"\\", "\"">>)

HandlerHints_KeepRaised(e, res) == e.hints

\* err.hints = (result.stdout + result.stderr).decode().split('\n')
HandlerHints(e, res) == Split(Captured(res), "\n")

\* lines 100-105: the except block; reading result.stdout of None raises
Except ==
    /\ pc = "except"
    /\ status' = "failed"
    /\ cmd' = [cmd EXCEPT ![BROWSER_ARGS_INDEX] = EscapedBrowserArgs]
    /\ IF result = NoneObj
       THEN /\ exc' = [type |-> "AttributeError", during |-> err.type]
            /\ UNCHANGED << err, output >>
       ELSE /\ err' = [err EXCEPT !.hints = HandlerHints(err, result)]
            /\ output' = err'
            /\ UNCHANGED exc
    /\ pc' = "finally"
    /\ UNCHANGED << config, files, chmodded, now, args, should, options,
                    deduped_options, result, hints, timer, executed,
                    faults, ret >>

Finally_SkippedWhenRaising ==
    /\ pc = "finally"
    /\ IF exc # NoneObj
       THEN /\ pc' = "raised"
            /\ UNCHANGED timer
       ELSE /\ timer' = [timer EXCEPT !.ended = @ + 1, !.end_ts = now]
            /\ pc' = "return"
    /\ UNCHANGED << config, files, chmodded, now, args, should, options,
                    deduped_options, cmd, status, output, result, hints,
                    err, executed, faults, ret, exc >>

\* finally: timer.end(); then the pending exception, if any, leaves
Finally ==
    /\ pc = "finally"
    /\ timer' = [timer EXCEPT !.ended = @ + 1, !.end_ts = now]
    /\ pc' = IF exc # NoneObj THEN "raised" ELSE "return"
    /\ UNCHANGED << config, files, chmodded, now, args, should, options,
                    deduped_options, cmd, status, output, result, hints,
                    err, executed, faults, ret, exc >>

\* return ArchiveResult(cmd=..., pwd=..., output=..., status=..., **timer.stats)
Return ==
    /\ pc = "return"
    /\ ret' = [type |-> "ArchiveResult", cmd |-> cmd, pwd |-> out_dir,
               cmd_version |-> SINGLEFILE_VERSION, output |-> output,
               status |-> status, start_ts |-> timer.start_ts,
               end_ts |-> timer.end_ts]
    /\ pc' = "returned"
    /\ UNCHANGED << config, files, chmodded, now, args, should, locals, executed,
                    faults, exc >>

\* extra arguments explored together with the outcomes of the run
SaveArgPool == { ARG_A1, ARG_BROWSER_ARGS, ARG_EXECUTABLE }

Init ==
    /\ SAVE_SINGLEFILE = TRUE
    /\ SINGLEFILE_ARGS \in ListsUpTo(SaveArgPool, MaxExtraArgs)
    /\ files \in SUBSET Dirs
    /\ now = 0
    /\ link = [url |-> PAGE_URL, link_dir |-> LinkDir]
    /\ out_dir \in {"None", "archive/2"}
    /\ overwrite = FALSE
    /\ timeout \in 1..MaxTimeout
    /\ pc = "start"
    /\ LocalsUnset

Next ==
    \/ BuildCommand
    \/ StartTimer
    \/ RunRaises
    \/ RunExits
    \/ Classify
    \/ Except
    \/ Finally
    \/ Return

Spec == Init /\ [][Next]_vars

(***************************************************************************)
(* Properties of save_singlefile                                           *)
(***************************************************************************)
\* the call is over: a value was returned or an exception left the function
Done == pc \in {"returned", "raised"}

Returned == ret # NoneObj

Exited == result # NoneObj

\* the four error kinds of the call
ErrorKinds ==
    (faults \cap {"ToolUnavailable", "Timeout"})
    \cup (IF Exited /\ result.returncode # 0 THEN {"NonZeroExit"} ELSE {})
    \cup (IF Exited /\ result.returncode = 0 /\ out_dir \notin files
          THEN {"MissingArtifact"} ELSE {})

\* C1: for each of the four error kinds save_singlefile returns an
\* ArchiveResult and no exception leaves it, also when run() raised before
\* `result` was assigned.
C1_ErrorsBecomeResults ==
    (Done /\ ErrorKinds # {}) => (Returned /\ exc = NoneObj)

\* C2: a returned Result has status 'failed' exactly when the exit code is
\* non-zero (positive or negative), or singlefile.html is absent from the
\* output directory, or a fault occurred; otherwise 'succeeded'.
C2_FailedIffNonZeroMissingOrFault ==
    Returned =>
        /\ ret.status \in {"failed", "succeeded"}
        /\ ret.status = "failed" <=>
               \/ (Exited /\ result.returncode # 0)
               \/ out_dir \notin files
               \/ faults # {}

\* C5: when the process has not exited by the timeout, the call yields a
\* Result with status 'failed' whose output is a Timeout error carrying the
\* partial output as hints, and whose duration is at least the timeout.
C5_TimeoutYieldsFailedResult ==
    (Done /\ "Timeout" \in faults) =>
        /\ Returned
        /\ ret.status = "failed"
        /\ ret.output.type = "TimeoutExpired"
        /\ ret.output.hints = Split(ret.output.stdout, "\n")
        /\ ret.end_ts - ret.start_ts >= timeout

CleanExitWithArtifact ==
    Returned /\ Exited /\ result.returncode = 0 /\ out_dir \in files

SucceededWithFilename ==
    /\ ret.status = "succeeded"
    /\ ret.output = [type |-> "str", value |-> OUTPUT_NAME]

NonBlankLines(text) == SelectSeq(Stripped(Split(text, "\n")), NotEmpty)

\* C7: the tail hints are the exit-code hint followed by the last
\* min(5, n) non-empty lines of the captured output in their order, n being
\* the number of non-empty lines, with or without a final newline or blank
\* lines among the last ones.
C7_TailIsLastFiveNonEmptyLines ==
    (Exited /\ pc \notin {"try", "classify"}) =>
        LET lines == NonBlankLines(result.stdout \o result.stderr)
            n == Len(lines)
            k == IF n < 5 THEN n ELSE 5
        IN  hints = << HINT_PREFIX \o IntStr(result.returncode) \o <<".">> >>
                        \o SubSeq(lines, n - k + 1, n)

\* C8: a returned Result with status 'failed' holds an error whose hints are
\* all the lines of stdout followed by stderr, in place of the tail hints
\* the error was raised with.
C8_FailureHintsAreWholeOutput ==
    (Returned /\ ret.status = "failed") =>
        /\ ret.output.type # "str"
        /\ \A i \in 1..Len(ret.output.hints) :
               "\n" \notin Range(ret.output.hints[i])
        /\ Join(ret.output.hints, "\n") = result.stdout \o result.stderr

\* a failed Result whose error was raised with tail hints and now holds
\* more lines than the tail can
C8_Witness ==
    /\ Returned
    /\ ret.status = "failed"
    /\ ret.output.type = "ArchiveError"
    /\ Len(ret.output.hints) > TAIL_LINES + 1
    /\ Len(hints) = TAIL_LINES + 1

\* C9: the cmd field of every returned Result is the command that was
\* executed: the binary, the deduplicated options in order, the URL, the
\* output filename, with no option name occurring twice.
C9_CmdFieldIsExecutedCommand ==
    Returned =>
        /\ ret.cmd = executed.cmd
        /\ ret.cmd = <<SINGLEFILE_BINARY>> \o deduped_options
                         \o << link.url, OUTPUT_NAME >>
        /\ \A i, j \in 2..(Len(ret.cmd) - 2) :
               i # j => NameBeforeEquals(ret.cmd[i])
                            # NameBeforeEquals(ret.cmd[j])

\* C10: once started the timer is ended exactly once on every way out, by
\* return or by exception, and before the Result is built from its
\* statistics.
C10_TimerEndedExactlyOnce ==
    /\ pc \in {"try", "classify", "except", "finally"} => timer.ended = 0
    /\ pc \in {"return", "returned", "raised"} =>
           /\ timer.ended = 1
           /\ timer.end_ts = now
    /\ Returned =>
           /\ ret.start_ts = timer.start_ts
           /\ ret.end_ts = timer.end_ts
           /\ ret.end_ts >= ret.start_ts

\* an exception raised inside the handler left the function, timer ended
C10_Witness ==
    /\ pc = "raised"
    /\ exc.type = "AttributeError"
    /\ timer.ended = 1
====
